---- MODULE Spec2Model ----
(***************************************************************************)
(* Model of the visualize_categorical package: the encoders of core.py and *)
(* the analysis pipeline of analyzer.py.                                   *)
(*                                                                         *)
(* A table (pandas DataFrame) is a record                                  *)
(*   [nrows, columns, dtype, data]                                         *)
(* where columns is the ordered list of column names, dtype gives each     *)
(* column's pandas dtype and data its values, one per row.  A column name  *)
(* is a pair <<base, suffix>>: <<"color", 0>> is the column "color" and    *)
(* <<"color", v>> is the indicator column "color_<v>" made by get_dummies. *)
(* Category labels are the integers of Categories, numbered in their       *)
(* alphabetical order; NaN stands for a missing value.                     *)
(***************************************************************************)
EXTENDS Integers, Sequences, FiniteSets, TLC

VARIABLES df, encode, include, pc, df_prepared, corr, corr_clean, results,
          fs, raised, trace, call, ret, runs, pyplot

vars == <<df, encode, include, pc, df_prepared, corr, corr_clean, results,
          fs, raised, trace, call, ret, runs, pyplot>>

pipeline_vars == <<encode, include, pc, df_prepared, corr, corr_clean,
                   results, fs, raised, trace, runs, pyplot>>

\* Largest number of rows of an input table.
MaxRows == 2

\* A missing value (numpy.nan): differs from every label and every code.
NaN == -2

\* The category labels, numbered in alphabetical order.
Categories == {1, 2}

Col(name) == <<name, 0>>

NumericName == "size"

\* A column name that no input table has.
AbsentColumn == Col("ghost")

Methods == {"onehot", "ordinal", "label", "none", "bogus"}

None == [kind |-> "None"]

(***************************************************************************)
(* Sequence helpers.                                                       *)
(***************************************************************************)
Range(s) == {s[i] : i \in DOMAIN s}

RECURSIVE SetToSortedSeq(_)
SetToSortedSeq(S) ==
    IF S = {} THEN <<>>
    ELSE LET m == CHOOSE x \in S : \A y \in S : x <= y
         IN <<m>> \o SetToSortedSeq(S \ {m})

IndexOf(s, v) == CHOOSE i \in DOMAIN s : s[i] = v

(***************************************************************************)
(* Tables.                                                                 *)
(***************************************************************************)
Columns(t) == Range(t.columns)

\* DataFrame.select_dtypes(...).columns.tolist()
select_dtypes(t, kinds) == SelectSeq(t.columns, LAMBDA c : t.dtype[c] \in kinds)

ObjectKinds == {"object", "category"}

NumberKinds == {"int64", "float64", "bool"}

\* DataFrame.drop(columns=...), and column assignment df[c] = values.
DropColumns(t, cs) ==
    LET keep == SelectSeq(t.columns, LAMBDA c : c \notin cs)
    IN [nrows |-> t.nrows,
        columns |-> keep,
        dtype |-> [c \in Range(keep) |-> t.dtype[c]],
        data |-> [c \in Range(keep) |-> t.data[c]]]

SetColumn(t, c, kind, values) ==
    [nrows |-> t.nrows,
     columns |-> t.columns,
     dtype |-> [t.dtype EXCEPT ![c] = kind],
     data |-> [t.data EXCEPT ![c] = values]]

\* pandas.concat([a, b], axis=1) of two frames over the same rows.
ConcatColumns(a, b) ==
    [nrows |-> a.nrows,
     columns |-> a.columns \o b.columns,
     dtype |-> [c \in Range(a.columns) \cup Range(b.columns) |->
                   IF c \in Range(a.columns) THEN a.dtype[c] ELSE b.dtype[c]],
     data |-> [c \in Range(a.columns) \cup Range(b.columns) |->
                   IF c \in Range(a.columns) THEN a.data[c] ELSE b.data[c]]]

(***************************************************************************)
(* Outcomes of a call: a returned value or a raised exception.             *)
(***************************************************************************)
Return(v) == [kind |-> "return", value |-> v]

Raise(e) == [kind |-> "raise", exc |-> e]

(***************************************************************************)
(* Library encoders, by what they compute on one column's values.          *)
(***************************************************************************)
\* The distinct non-missing values in order of first appearance
\* (the uniques of pandas.factorize).
RECURSIVE FirstSeen(_)
FirstSeen(s) ==
    IF s = <<>> THEN <<>>
    ELSE LET rest == FirstSeen(SubSeq(s, 1, Len(s) - 1))
             v == s[Len(s)]
         IN IF v = NaN \/ v \in Range(rest) THEN rest ELSE Append(rest, v)

\* factorize with the codes counted from 1.
factorize_from_one(s) ==
    [i \in 1..Len(s) |->
        IF s[i] = NaN THEN -1 ELSE IndexOf(FirstSeen(s), s[i])]

\* pandas.factorize(values)[0]: first-seen codes, -1 for a missing value.
factorize(s) ==
    [i \in 1..Len(s) |->
        IF s[i] = NaN THEN -1 ELSE IndexOf(FirstSeen(s), s[i]) - 1]

\* The distinct non-missing values in sorted order (categories_ / classes_).
SortedCategories(s) == SetToSortedSeq(Range(s) \ {NaN})

\* sklearn OrdinalEncoder().fit_transform: sorted categories, a missing
\* value stays missing.
OrdinalEncoder_fit_transform(s) ==
    [i \in 1..Len(s) |->
        IF s[i] = NaN THEN NaN ELSE IndexOf(SortedCategories(s), s[i]) - 1]

\* sklearn LabelEncoder().fit_transform: sorted classes, the missing value
\* is the last class.
LabelEncoder_fit_transform(s) ==
    [i \in 1..Len(s) |->
        IF s[i] = NaN THEN Len(SortedCategories(s))
        ELSE IndexOf(SortedCategories(s), s[i]) - 1]

\* get_dummies_1d with drop_first=True: the first level gets no column.
get_dummies_1d_drop_first(t, c) ==
    LET sorted == SortedCategories(t.data[c])
        levels == IF sorted = <<>> THEN <<>> ELSE Tail(sorted)
        names == [k \in 1..Len(levels) |-> <<c[1], levels[k]>>]
    IN [nrows |-> t.nrows,
        columns |-> names,
        dtype |-> [x \in Range(names) |-> "bool"],
        data |-> [x \in Range(names) |->
                     [i \in 1..t.nrows |->
                         IF t.data[c][i] = x[2] THEN 1 ELSE 0]]]

\* The indicator frame of one column (pandas _get_dummies_1d, dummy_na
\* False): one column per sorted non-missing level, named prefix_level.
get_dummies_1d(t, c) ==
    LET levels == SortedCategories(t.data[c])
        names == [k \in 1..Len(levels) |-> <<c[1], levels[k]>>]
    IN [nrows |-> t.nrows,
        columns |-> names,
        dtype |-> [x \in Range(names) |-> "bool"],
        data |-> [x \in Range(names) |->
                     [i \in 1..t.nrows |->
                         IF t.data[c][i] = x[2] THEN 1 ELSE 0]]]

RECURSIVE ConcatAll(_, _)
ConcatAll(t, frames) ==
    IF frames = <<>> THEN t
    ELSE ConcatAll(ConcatColumns(t, Head(frames)), Tail(frames))

\* pandas.get_dummies(df, columns=cols, prefix=cols): the other columns
\* first, then the indicator columns of each encoded column in turn.
get_dummies(t, cols) ==
    ConcatAll(DropColumns(t, Range(cols)),
              [k \in 1..Len(cols) |-> get_dummies_1d(t, cols[k])])

(***************************************************************************)
(* core.py                                                                 *)
(***************************************************************************)
\* A call returns [out, df]: its outcome and the caller's table after the
\* call (the encoders work on copies and leave it as it was).
Called(outcome, t) == [out |-> outcome, df |-> t]

validate_category_column(t, column) ==
    IF column \notin Columns(t)
    THEN Called(Raise("ValueError"), t)
    ELSE IF \A i \in 1..t.nrows : t.data[column][i] = NaN
    THEN Called(Raise("ValueError"), t)
    ELSE Called(Return(None), t)

\* encode_categorical that looks at the method before the column.
encode_categorical_method_first(t, column, method) ==
    IF method \notin {"onehot", "ordinal", "label"}
    THEN Called(Raise("ValueError"), t)
    ELSE IF column \notin Columns(t)
    THEN Called(Raise("KeyError"), t)
    ELSE IF method = "onehot"
    THEN Called(Return(get_dummies(t, <<column>>)), t)
    ELSE IF method = "ordinal"
    THEN Called(Return(SetColumn(t, column, "float64",
                    OrdinalEncoder_fit_transform(t.data[column]))), t)
    ELSE Called(Return(SetColumn(t, column, "int64",
                    LabelEncoder_fit_transform(t.data[column]))), t)

encode_categorical(t, column, method) ==
    IF column \notin Columns(t)
    THEN Called(Raise("KeyError"), t)
    ELSE IF method = "onehot"
    THEN Called(Return(get_dummies(t, <<column>>)), t)
    ELSE IF method = "ordinal"
    THEN Called(Return(SetColumn(t, column, "float64",
                    OrdinalEncoder_fit_transform(t.data[column]))), t)
    ELSE IF method = "label"
    THEN Called(Return(SetColumn(t, column, "int64",
                    LabelEncoder_fit_transform(t.data[column]))), t)
    ELSE Called(Raise("ValueError"), t)

(***************************************************************************)
(* analyzer.py: encoding of all columns.                                    *)
(***************************************************************************)
RECURSIVE FactorizeColumns(_, _)
FactorizeColumns(t, cols) ==
    IF cols = <<>> THEN t
    ELSE FactorizeColumns(
             SetColumn(t, Head(cols), "int64", factorize(t.data[Head(cols)])),
             Tail(cols))

_encode_all_columns(t, method) ==
    LET cat_cols == select_dtypes(t, ObjectKinds)
    IN IF method = "onehot"
       THEN Called(Return(get_dummies(t, cat_cols)), t)
       ELSE IF method = "ordinal"
       THEN Called(Return(FactorizeColumns(t, cat_cols)), t)
       ELSE IF method = "label"
       THEN Called(Return(FactorizeColumns(t, cat_cols)), t)
       ELSE Called(Raise("ValueError"), t)

\* Python's None as the encode argument.
PyNone == "None"

\* prepare_dataframe that tests only for None, not for "none".
prepare_dataframe_encodes_none(t, method) ==
    IF method # PyNone
    THEN _encode_all_columns(t, method)
    ELSE Called(Return(t), t)

prepare_dataframe(t, method) ==
    IF method # PyNone /\ method # "none"
    THEN _encode_all_columns(t, method)
    ELSE Called(Return(t), t)

(***************************************************************************)
(* analyzer.py: the compute blocks.  A matrix (a DataFrame of floats) is a *)
(* record [kind, index, columns, cell] with one cell per pair of a row     *)
(* label and a column label.                                               *)
(***************************************************************************)
Frame(index, columns, cell) ==
    [kind |-> "frame", index |-> index, columns |-> columns, cell |-> cell]

\* DataFrame.empty and DataFrame.shape
IsEmptyFrame(m) == Len(m.index) = 0 \/ Len(m.columns) = 0

Shape(rows, cols) == [kind |-> "shape", rows |-> rows, cols |-> cols]

FrameShape(m) == Shape(Len(m.index), Len(m.columns))

RECURSIVE SumSeq(_)
SumSeq(s) == IF s = <<>> THEN 0 ELSE Head(s) + SumSeq(Tail(s))

Dot(x, y) == SumSeq([i \in 1..Len(x) |-> x[i] * y[i]])

\* The distinct values in order of first appearance, a missing value among
\* them (the index of value_counts(dropna=False) before sorting).
RECURSIVE unique(_)
unique(s) ==
    IF s = <<>> THEN <<>>
    ELSE LET rest == unique(SubSeq(s, 1, Len(s) - 1))
             v == s[Len(s)]
         IN IF v \in Range(rest) THEN rest ELSE Append(rest, v)

CountOf(s, v) == Cardinality({i \in 1..Len(s) : s[i] = v})

\* Series.value_counts(dropna=False), idxmax() and max() / len(df) for one
\* column: the share is kept as the fraction num / den.  Among values of
\* equal count the first seen comes first.
ColumnSummary(t, c) ==
    LET s == t.data[c]
        u == unique(s)
        best == CHOOSE k \in 1..Len(u) :
                    /\ \A j \in 1..Len(u) : CountOf(s, u[j]) <= CountOf(s, u[k])
                    /\ \A j \in 1..(k - 1) : CountOf(s, u[j]) < CountOf(s, u[k])
    IN [counts |-> [v \in Range(u) |-> CountOf(s, v)],
        n_unique |-> Len(u),
        most_freq |-> u[best],
        most_freq_share |-> [num |-> CountOf(s, u[best]), den |-> t.nrows]]

\* idxmax() of an empty value_counts raises ValueError: a table without rows
\* that has a text column.
compute_distributions(t) ==
    LET cols == select_dtypes(t, ObjectKinds)
    IN IF cols # <<>> /\ t.nrows = 0
       THEN Raise("ValueError")
       ELSE Return([kind |-> "dict",
                    order |-> cols,
                    info |-> [c \in Range(cols) |-> ColumnSummary(t, c)]])

\* Pearson's r of two columns without missing values, kept exact as
\* r = num / sqrt(vx * vy); r is NaN when one of the columns does not vary.
Pearson(x, y) ==
    LET n == Len(x)
    IN [num |-> n * Dot(x, y) - SumSeq(x) * SumSeq(y),
        vx |-> n * Dot(x, x) - SumSeq(x) * SumSeq(x),
        vy |-> n * Dot(y, y) - SumSeq(y) * SumSeq(y)]

IsNaNCell(e) == e.vx * e.vy = 0

compute_correlation_matrix(t) ==
    LET numeric == select_dtypes(t, NumberKinds)
    IN Frame(numeric, numeric,
             [p \in Range(numeric) \X Range(numeric) |->
                 Pearson(t.data[p[1]], t.data[p[2]])])

\* corr.dropna(axis=0, how="all").dropna(axis=1, how="all")
dropna_all_rows(m) ==
    Frame(SelectSeq(m.index,
                    LAMBDA r : \E c \in Range(m.columns) : ~IsNaNCell(m.cell[<<r, c>>])),
          m.columns, m.cell)

dropna_all_columns(m) ==
    Frame(m.index,
          SelectSeq(m.columns,
                    LAMBDA c : \E r \in Range(m.index) : ~IsNaNCell(m.cell[<<r, c>>])),
          m.cell)

corr_clean_of(m) ==
    LET rows == dropna_all_rows(m)
        both == dropna_all_columns(rows)
    IN Frame(both.index, both.columns,
             [p \in Range(both.index) \X Range(both.columns) |-> m.cell[p]])

\* sklearn mutual_info_score(x, y) is a function of the contingency table of
\* the two label sequences, which stands for the score here.
ZeroScore == [kind |-> "zero"]

mutual_info_score(x, y) ==
    [kind |-> "mi",
     contingency |-> [p \in Range(x) \X Range(y) |->
                         Cardinality({i \in 1..Len(x) : x[i] = p[1] /\ y[i] = p[2]})]]

\* mutual_info_score rejects label sequences with a missing value
\* (ValueError: Input contains NaN).
compute_mutual_info(t, columns) ==
    LET n == Len(columns)
        pairs == {p \in (1..n) \X (1..n) : p[1] < p[2]}
    IN IF \E p \in pairs : \/ NaN \in Range(t.data[columns[p[1]]])
                           \/ NaN \in Range(t.data[columns[p[2]]])
       THEN Raise("ValueError")
       ELSE Return(Frame(columns, columns,
                [q \in Range(columns) \X Range(columns) |->
                    LET i == IndexOf(columns, q[1])
                        j == IndexOf(columns, q[2])
                    IN IF i < j
                       THEN mutual_info_score(t.data[q[1]], t.data[q[2]])
                       ELSE IF j < i
                       THEN mutual_info_score(t.data[q[2]], t.data[q[1]])
                       ELSE ZeroScore]))

(***************************************************************************)
(* analyzer.py: the result bundle, the files and the report.               *)
(***************************************************************************)
\* results.get(key)
Get(r, key) == IF key \in DOMAIN r THEN r[key] ELSE None

Put(r, key, value) == (key :> value) @@ r

Truthy(v) == v # None

\* A path is the sequence of its parts.
PathOf(dir, name) == [kind |-> "path", path |-> Append(dir, name)]

FileName(p) == p.path[Len(p.path)]

Parent(path) == SubSeq(path, 1, Len(path) - 1)

Dir == [kind |-> "dir"]

File(content) == [kind |-> "file", content |-> content]

\* Path.mkdir(parents=True, exist_ok=True)
RECURSIVE mkdir(_, _)
mkdir(files, path) ==
    IF path = <<>> THEN files
    ELSE LET up == mkdir(files, Parent(path))
         IN IF path \in DOMAIN up THEN up ELSE (path :> Dir) @@ up

\* Writing a file creates it or replaces its content.
WriteFile(files, path, content) ==
    LET made == mkdir(files, Parent(path))
    IN [q \in DOMAIN made \cup {path} |->
           IF q = path THEN File(content) ELSE made[q]]

save_csv(files, m, out_path) == WriteFile(files, out_path.path, m)

save_heatmap(files, m, out_path) ==
    WriteFile(files, out_path.path,
              IF IsEmptyFrame(m)
              THEN [kind |-> "placeholder"]
              ELSE [kind |-> "heatmap", of |-> m])

HighCardinality == 10

\* A conclusion or a report line: a text and what is formatted into it.
Line(text, arg) == [text |-> text, arg |-> arg]

NoArg == <<"", 0>>

\* The entries of the matrix above the diagonal that are not NaN
\* (corr_df.where(triu(k=1)).stack()).
Stacked(m) ==
    {p \in (1..Len(m.index)) \X (1..Len(m.columns)) :
        /\ p[1] < p[2]
        /\ ~IsNaNCell(m.cell[<<m.index[p[1]], m.columns[p[2]]>>])}

\* The first column of the summaries with the largest share
\* (max(dist.items(), key=...)); all shares have the same denominator.
MostSkewed(dist) ==
    LET o == dist.order
        k == CHOOSE k \in 1..Len(o) :
                 /\ \A j \in 1..Len(o) :
                        dist.info[o[j]].most_freq_share.num
                            <= dist.info[o[k]].most_freq_share.num
                 /\ \A j \in 1..(k - 1) :
                        dist.info[o[j]].most_freq_share.num
                            < dist.info[o[k]].most_freq_share.num
    IN o[k]

\* _generate_conclusions with the average statement under the test of the
\* extremes.
_generate_conclusions_average_with_extremes(r) ==
    LET corr_df == Get(r, "corr")
        dist == Get(r, "distributions")
        mi == Get(r, "mi")
        many_unique ==
            IF dist # None
            THEN SelectSeq(dist.order,
                           LAMBDA c : dist.info[c].n_unique > HighCardinality)
            ELSE <<>>
        correlation ==
            IF /\ corr_df # None
               /\ ~IsEmptyFrame(corr_df)
               /\ Len(dropna_all_rows(corr_df).index) > 1
               /\ Stacked(corr_df) # {}
            THEN <<Line("Max positive correlation", NoArg),
                   Line("Max negative correlation", NoArg),
                   Line("Average absolute pairwise correlation", NoArg)>>
            ELSE <<>>
        diversity ==
            IF dist # None /\ dist.order # <<>>
            THEN <<Line("Most skewed category", MostSkewed(dist))>>
                 \o (IF many_unique # <<>>
                     THEN <<Line("High-cardinality features", many_unique)>>
                     ELSE <<>>)
            ELSE <<>>
        mutual ==
            IF mi # None /\ ~IsEmptyFrame(mi)
            THEN <<Line("Top mutual information", NoArg)>>
            ELSE <<>>
    IN correlation \o diversity \o mutual
       \o <<Line("Consider dimensionality reduction", NoArg)>>

\* The wording of the average statement depends on the value of the average
\* (below 0.2 or not), which is not told apart here.  The high-cardinality
\* line carries the columns it lists.
_generate_conclusions(r) ==
    LET corr_df == Get(r, "corr")
        dist == Get(r, "distributions")
        mi == Get(r, "mi")
        many_unique ==
            IF dist # None
            THEN SelectSeq(dist.order,
                           LAMBDA c : dist.info[c].n_unique > HighCardinality)
            ELSE <<>>
        correlation ==
            IF /\ corr_df # None
               /\ ~IsEmptyFrame(corr_df)
               /\ Len(dropna_all_rows(corr_df).index) > 1
            THEN (IF Stacked(corr_df) # {}
                  THEN <<Line("Max positive correlation", NoArg),
                         Line("Max negative correlation", NoArg)>>
                  ELSE <<>>)
                 \o <<Line("Average absolute pairwise correlation", NoArg)>>
            ELSE <<>>
        diversity ==
            IF dist # None /\ dist.order # <<>>
            THEN <<Line("Most skewed category", MostSkewed(dist))>>
                 \o (IF many_unique # <<>>
                     THEN <<Line("High-cardinality features", many_unique)>>
                     ELSE <<>>)
            ELSE <<>>
        mutual ==
            IF mi # None /\ ~IsEmptyFrame(mi)
            THEN <<Line("Top mutual information", NoArg)>>
            ELSE <<>>
    IN correlation \o diversity \o mutual
       \o <<Line("Consider dimensionality reduction", NoArg)>>

\* The lines of the report that build_markdown_report writes.
build_markdown_report(r, include_images) ==
    LET dist == Get(r, "distributions")
        corr_path == Get(r, "corr_csv")
        corr_shape == Get(r, "corr_shape")
        heatmap_path == Get(r, "heatmap")
        mi_path == Get(r, "mi_csv")
        concl == _generate_conclusions(r)
    IN <<Line("# Categorical analysis report", NoArg),
         Line("Generated: UTC", NoArg),
         Line("", NoArg),
         Line("## 1. Distributions summary", NoArg)>>
       \o (IF dist # None
           THEN [k \in 1..Len(dist.order) |-> Line("- **column**", dist.order[k])]
           ELSE <<>>)
       \o <<Line("", NoArg),
            Line("## 2. Correlation matrix", NoArg)>>
       \o (IF Truthy(corr_shape)
           THEN <<Line("- correlation matrix shape", <<"", corr_shape.rows>>)>>
           ELSE <<>>)
       \o (IF Truthy(corr_path)
           THEN <<Line("- CSV", <<FileName(corr_path), 0>>)>>
           ELSE <<>>)
       \o (IF include_images /\ Truthy(heatmap_path)
           THEN <<Line("", NoArg),
                  Line("![heatmap]", <<FileName(heatmap_path), 0>>)>>
           ELSE <<>>)
       \o <<Line("", NoArg)>>
       \o (IF Truthy(mi_path)
           THEN <<Line("## 3. Mutual information (categorical pairs)", NoArg),
                  Line("- CSV", <<FileName(mi_path), 0>>),
                  Line("", NoArg)>>
           ELSE <<>>)
       \o <<Line("## 4. Conclusions", NoArg)>>
       \o [k \in 1..Len(concl) |-> Line("- conclusion", <<concl[k].text, 0>>)]
       \o <<Line("", NoArg)>>

(***************************************************************************)
(* The input tables: any non-empty subset of the two text columns and the  *)
(* numeric column, up to MaxRows rows.  Text values may be missing; the    *)
(* numeric column holds the row number, so it has no missing value and     *)
(* varies as soon as there are two rows.                                   *)
(***************************************************************************)
AllNames == <<Col("color"), Col("shape"), Col(NumericName)>>

NameLists ==
    {SelectSeq(AllNames, LAMBDA c : c \in S) : S \in (SUBSET Range(AllNames)) \ {{}}}

MakeTable(n, names, cells) ==
    [nrows |-> n,
     columns |-> names,
     dtype |-> [c \in Range(names) |->
                   IF c = Col(NumericName) THEN "int64" ELSE "object"],
     data |-> [c \in Range(names) |->
                  IF c = Col(NumericName) THEN [i \in 1..n |-> i]
                  ELSE cells[c]]]

InputTables ==
    UNION {UNION {{MakeTable(n, names, cells) :
                      cells \in [Range(names) \ {Col(NumericName)} ->
                                    [1..n -> Categories \cup {NaN}]]}
                  : names \in NameLists}
           : n \in 0..MaxRows}

(***************************************************************************)
(* Calls of the encoders on their own.                                     *)
(***************************************************************************)
NoCall == [fn |-> "none"]

CallColumns == Range(AllNames) \cup {AbsentColumn}

CallEncodeCategorical ==
    \E column \in CallColumns, method \in Methods :
        LET r == encode_categorical(df, column, method)
        IN /\ call' = [fn |-> "encode_categorical", df |-> df,
                       column |-> column, method |-> method]
           /\ ret' = r.out
           /\ df' = r.df
           /\ UNCHANGED pipeline_vars

CallValidateCategoryColumn ==
    \E column \in CallColumns :
        LET r == validate_category_column(df, column)
        IN /\ call' = [fn |-> "validate_category_column", df |-> df,
                       column |-> column, method |-> "none"]
           /\ ret' = r.out
           /\ df' = r.df
           /\ UNCHANGED pipeline_vars

CallPrepareDataframe ==
    \E method \in Methods \cup {PyNone} :
        LET r == prepare_dataframe(df, method)
        IN /\ call' = [fn |-> "prepare_dataframe", df |-> df,
                       column |-> AbsentColumn, method |-> method]
           /\ ret' = r.out
           /\ df' = r.df
           /\ UNCHANGED pipeline_vars

CallEncodeAllColumns ==
    \E method \in Methods :
        LET r == _encode_all_columns(df, method)
        IN /\ call' = [fn |-> "_encode_all_columns", df |-> df,
                       column |-> AbsentColumn, method |-> method]
           /\ ret' = r.out
           /\ df' = r.df
           /\ UNCHANGED pipeline_vars

CallComputeDistributions ==
    /\ call' = [fn |-> "compute_distributions", df |-> df,
                column |-> AbsentColumn, method |-> "none"]
    /\ ret' = compute_distributions(df)
    /\ UNCHANGED df
    /\ UNCHANGED pipeline_vars

\* columns=None stands for every text column of the table.
compute_mutual_info_default(t) ==
    compute_mutual_info(t, select_dtypes(t, ObjectKinds))

\* The column lists of a call: the named columns that the table holds, any
\* number of them in any order, none of them twice.
ColumnLists(t) ==
    LET S == Range(AllNames) \cap Columns(t)
    IN {s \in UNION {[1..k -> S] : k \in 0..Cardinality(S)} :
           \A i, j \in 1..Len(s) : s[i] = s[j] => i = j}

CallComputeMutualInfo ==
    \/ \E columns \in ColumnLists(df) :
           /\ call' = [fn |-> "compute_mutual_info", df |-> df,
                       column |-> AbsentColumn, method |-> "none",
                       given |-> TRUE, columns |-> columns]
           /\ ret' = compute_mutual_info(df, columns)
           /\ UNCHANGED df
           /\ UNCHANGED pipeline_vars
    \/ /\ call' = [fn |-> "compute_mutual_info", df |-> df,
                    column |-> AbsentColumn, method |-> "none",
                    given |-> FALSE, columns |-> <<>>]
       /\ ret' = compute_mutual_info_default(df)
       /\ UNCHANGED df
       /\ UNCHANGED pipeline_vars

InitPipelineIdle ==
    /\ encode = "none"
    /\ include = {}
    /\ pc = "idle"
    /\ df_prepared = None
    /\ corr = None
    /\ corr_clean = None
    /\ results = <<>>
    /\ fs = <<>>
    /\ raised = None
    /\ trace = <<>>
    /\ runs = <<>>
    /\ pyplot = <<>>

InitCore ==
    /\ df \in InputTables
    /\ call = NoCall
    /\ ret = None
    /\ InitPipelineIdle

NextCore ==
    \/ CallEncodeCategorical
    \/ CallValidateCategoryColumn
    \/ CallPrepareDataframe
    \/ CallEncodeAllColumns
    \/ CallComputeDistributions
    \/ CallComputeMutualInfo

SpecCore == InitCore /\ [][NextCore]_vars

(***************************************************************************)
(* analyzer.py: analyze_dataset, one action per stage.  pc is the stage to *)
(* run next; a stage that raises ends the run in "failed" with the         *)
(* exception in raised.  trace lists the stages that have run.             *)
(***************************************************************************)
OutDir == <<"out">>

\* out_dir / "analysis_<timestamp>"
JobDir == Append(OutDir, "analysis_ts")

IncludeParts == {"images", "csv", "text"}

Init ==
    /\ df \in InputTables
    /\ encode \in Methods \cup {PyNone}
    /\ include \in SUBSET IncludeParts
    /\ pc = "start"
    /\ df_prepared = None
    /\ corr = None
    /\ corr_clean = None
    /\ results = <<>>
    /\ fs = <<>>
    /\ raised = None
    /\ trace = <<>>
    /\ call = NoCall
    /\ ret = None
    /\ runs = <<>>
    /\ pyplot = <<>>

\* job_dir.mkdir(parents=True, exist_ok=True)
MakeJobDir ==
    /\ pc = "start"
    /\ fs' = mkdir(fs, JobDir)
    /\ pc' = "prepare"
    /\ UNCHANGED <<df, encode, include, df_prepared, corr, corr_clean,
                   results, raised, trace, call, ret, runs, pyplot>>

PrepareStage ==
    /\ pc = "prepare"
    /\ LET r == prepare_dataframe(df, encode)
       IN /\ df' = r.df
          /\ IF r.out.kind = "raise"
             THEN /\ pc' = "failed"
                  /\ raised' = r.out
                  /\ UNCHANGED <<df_prepared, results>>
             ELSE /\ pc' = "distributions"
                  /\ df_prepared' = r.out.value
                  /\ results' = Put(results, "prepared_shape",
                                    Shape(r.out.value.nrows,
                                          Len(r.out.value.columns)))
                  /\ UNCHANGED raised
    /\ trace' = Append(trace, "prepare")
    /\ UNCHANGED <<encode, include, corr, corr_clean, fs, call, ret, runs, pyplot>>

\* The distribution stage run on the encoded table.
DistributionsStage_on_prepared ==
    /\ pc = "distributions"
    /\ LET r == compute_distributions(df_prepared)
       IN IF r.kind = "raise"
          THEN /\ pc' = "failed"
               /\ raised' = r
               /\ UNCHANGED results
          ELSE /\ pc' = "correlation"
               /\ results' = Put(results, "distributions", r.value)
               /\ UNCHANGED raised
    /\ trace' = Append(trace, "distributions")
    /\ UNCHANGED <<df, encode, include, df_prepared, corr, corr_clean, fs,
                   call, ret, runs, pyplot>>

DistributionsStage ==
    /\ pc = "distributions"
    /\ LET r == compute_distributions(df)
       IN IF r.kind = "raise"
          THEN /\ pc' = "failed"
               /\ raised' = r
               /\ UNCHANGED results
          ELSE /\ pc' = "correlation"
               /\ results' = Put(results, "distributions", r.value)
               /\ UNCHANGED raised
    /\ trace' = Append(trace, "distributions")
    /\ UNCHANGED <<df, encode, include, df_prepared, corr, corr_clean, fs,
                   call, ret, runs, pyplot>>

CorrelationStage ==
    /\ pc = "correlation"
    /\ LET m == compute_correlation_matrix(df_prepared)
           path == PathOf(JobDir, "correlation.csv")
           r1 == Put(Put(results, "corr", m), "corr_shape", FrameShape(m))
       IN /\ corr' = m
          /\ corr_clean' = corr_clean_of(m)
          /\ IF "csv" \in include
             THEN /\ fs' = save_csv(fs, m, path)
                  /\ results' = Put(r1, "corr_csv", path)
             ELSE /\ fs' = fs
                  /\ results' = r1
    /\ pc' = "heatmap"
    /\ trace' = Append(trace, "correlation")
    /\ UNCHANGED <<df, encode, include, df_prepared, raised, call, ret, runs, pyplot>>

\* The heatmap stage without the test for an empty clean matrix.
HeatmapStage_always_saves ==
    /\ pc = "heatmap"
    /\ LET heat_path == PathOf(JobDir, "heatmap.png")
       IN IF "images" \in include
          THEN /\ fs' = save_heatmap(fs, corr_clean, heat_path)
               /\ results' = Put(results, "heatmap", heat_path)
          ELSE UNCHANGED <<results, fs>>
    /\ pc' = "mutual_info"
    /\ UNCHANGED <<df, encode, include, df_prepared, corr, corr_clean,
                   raised, trace, call, ret, runs, pyplot>>

HeatmapStage ==
    /\ pc = "heatmap"
    /\ LET heat_path == PathOf(JobDir, "heatmap.png")
       IN IF "images" \in include
          THEN IF IsEmptyFrame(corr_clean)
               THEN /\ results' = Put(results, "heatmap", None)
                    /\ fs' = fs
               ELSE /\ fs' = save_heatmap(fs, corr_clean, heat_path)
                    /\ results' = Put(results, "heatmap", heat_path)
          ELSE UNCHANGED <<results, fs>>
    /\ pc' = "mutual_info"
    /\ UNCHANGED <<df, encode, include, df_prepared, corr, corr_clean,
                   raised, trace, call, ret, runs, pyplot>>

\* The mutual-information stage that removes the run's files when it fails.
MutualInfoStage_cleans_up ==
    /\ pc = "mutual_info"
    /\ LET cat_cols == select_dtypes(df, ObjectKinds)
           r == compute_mutual_info(df, cat_cols)
           path == PathOf(JobDir, "mutual_info.csv")
       IN IF cat_cols = <<>>
          THEN /\ pc' = "report"
               /\ UNCHANGED <<results, fs, raised, trace>>
          ELSE /\ trace' = Append(trace, "mutual_info")
               /\ IF r.kind = "raise"
                  THEN /\ pc' = "failed"
                       /\ raised' = r
                       /\ fs' = [q \in {x \in DOMAIN fs : fs[x].kind = "dir"} |-> fs[q]]
                       /\ UNCHANGED results
                  ELSE /\ pc' = "report"
                       /\ UNCHANGED raised
                       /\ IF "csv" \in include
                          THEN /\ fs' = save_csv(fs, r.value, path)
                               /\ results' = Put(Put(results, "mi", r.value),
                                                 "mi_csv", path)
                          ELSE /\ fs' = fs
                               /\ results' = Put(results, "mi", r.value)
    /\ UNCHANGED <<df, encode, include, df_prepared, corr, corr_clean,
                   call, ret, runs, pyplot>>

MutualInfoStage ==
    /\ pc = "mutual_info"
    /\ LET cat_cols == select_dtypes(df, ObjectKinds)
           r == compute_mutual_info(df, cat_cols)
           path == PathOf(JobDir, "mutual_info.csv")
       IN IF cat_cols = <<>>
          THEN /\ pc' = "report"
               /\ UNCHANGED <<results, fs, raised, trace>>
          ELSE /\ trace' = Append(trace, "mutual_info")
               /\ IF r.kind = "raise"
                  THEN /\ pc' = "failed"
                       /\ raised' = r
                       /\ UNCHANGED <<results, fs>>
                  ELSE /\ pc' = "report"
                       /\ UNCHANGED raised
                       /\ IF "csv" \in include
                          THEN /\ fs' = save_csv(fs, r.value, path)
                               /\ results' = Put(Put(results, "mi", r.value),
                                                 "mi_csv", path)
                          ELSE /\ fs' = fs
                               /\ results' = Put(results, "mi", r.value)
    /\ UNCHANGED <<df, encode, include, df_prepared, corr, corr_clean,
                   call, ret, runs, pyplot>>

ReportStage ==
    /\ pc = "report"
    /\ LET report_path == PathOf(JobDir, "report.md")
           include_images == "images" \in include
       IN /\ fs' = WriteFile(fs, report_path.path,
                             build_markdown_report(results, include_images))
          /\ results' = Put(results, "report", report_path)
    /\ pc' = "done"
    /\ trace' = Append(trace, "report")
    /\ UNCHANGED <<df, encode, include, df_prepared, corr, corr_clean,
                   raised, call, ret, runs, pyplot>>

Next ==
    \/ MakeJobDir
    \/ PrepareStage
    \/ DistributionsStage
    \/ CorrelationStage
    \/ HeatmapStage
    \/ MutualInfoStage
    \/ ReportStage

Spec == Init /\ [][Next]_vars

(***************************************************************************)
(* Calls of _generate_conclusions on result bundles.  A bundle holds the   *)
(* distributions and the mutual information of a table of text columns,    *)
(* and a correlation matrix of two numeric columns; each entry may be      *)
(* absent.  The text columns cycle through 2, HighCardinality or           *)
(* HighCardinality + 1 values, so that a column may or may not be of high  *)
(* cardinality.                                                            *)
(***************************************************************************)
Cycles == {2, HighCardinality, HighCardinality + 1}

WideRows == HighCardinality + 2

WideTables ==
    UNION {{MakeTable(WideRows, names,
                      [c \in Range(names) |->
                          [i \in 1..WideRows |-> ((i - 1) % k[c]) + 1]]) :
               k \in [Range(names) -> Cycles]}
           : names \in {<<Col(NumericName)>>, <<Col("color")>>,
                        <<Col("color"), Col("shape")>>}}

\* Cells of a correlation matrix: NaN, or r = -1, 0 or 1.
NaNCell == [num |-> 0, vx |-> 0, vy |-> 0]

CorrCell(r) == [num |-> r, vx |-> 1, vy |-> 1]

CorrColumns == <<Col(NumericName), <<"color", 1>>>>

\* The correlation matrices of no, one or two columns: symmetric, 1 or NaN
\* on the diagonal, and NaN off the diagonal when a diagonal entry is NaN
\* or when the two columns have no row in common.
CorrFrames ==
    {Frame(<<>>, <<>>, <<>>)}
    \cup {Frame(<<CorrColumns[1]>>, <<CorrColumns[1]>>,
                [p \in {<<CorrColumns[1], CorrColumns[1]>>} |-> d]) :
             d \in {CorrCell(1), NaNCell}}
    \cup {Frame(CorrColumns, CorrColumns,
                [p \in Range(CorrColumns) \X Range(CorrColumns) |->
                    IF p[1] # p[2] THEN off
                    ELSE IF p[1] = CorrColumns[1] THEN d[1] ELSE d[2]]) :
             d \in {e \in [1..2 -> {CorrCell(1), NaNCell}] : TRUE},
             off \in {NaNCell, CorrCell(-1), CorrCell(0), CorrCell(1)}}

WellFormedCorr(m) ==
    \A a, b \in Range(m.index) :
        IsNaNCell(m.cell[<<a, a>>]) => IsNaNCell(m.cell[<<a, b>>])

ResultBundle(t, with_dist, with_mi, c) ==
    LET r0 == <<>>
        r1 == IF with_dist
              THEN Put(r0, "distributions", compute_distributions(t).value)
              ELSE r0
        r2 == IF c # None THEN Put(r1, "corr", c) ELSE r1
    IN IF with_mi
       THEN Put(r2, "mi", compute_mutual_info_default(t).value)
       ELSE r2

CallGenerateConclusions ==
    /\ call' = [fn |-> "_generate_conclusions", results |-> results]
    /\ ret' = Return(_generate_conclusions(results))
    /\ UNCHANGED df
    /\ UNCHANGED pipeline_vars

InitConclusions ==
    /\ df \in WideTables
    /\ \E with_dist \in BOOLEAN, with_mi \in BOOLEAN,
          c \in {m \in CorrFrames : WellFormedCorr(m)} \cup {None} :
           results = ResultBundle(df, with_dist, with_mi, c)
    /\ call = NoCall
    /\ ret = None
    /\ encode = "none"
    /\ include = {}
    /\ pc = "idle"
    /\ df_prepared = None
    /\ corr = None
    /\ corr_clean = None
    /\ fs = <<>>
    /\ raised = None
    /\ trace = <<>>
    /\ runs = <<>>
    /\ pyplot = <<>>

NextConclusions == CallGenerateConclusions

SpecConclusions == InitConclusions /\ [][NextConclusions]_vars

(***************************************************************************)
(* Two invocations of analyze_dataset in one process, each with its own    *)
(* output directory, interleaved statement by statement.  runs[r] holds    *)
(* the locals of invocation r and, in wrote, the paths it has created or   *)
(* written.  The disk fs is shared, and so is pyplot: the figures of       *)
(* matplotlib.pyplot, of which the last is the current one that            *)
(* plt.figure, sns.heatmap, plt.title, plt.savefig and plt.close act on.   *)
(***************************************************************************)
single_run_vars == <<df, encode, include, pc, df_prepared, corr, corr_clean,
                     results, raised, trace, call, ret>>

Runs == {1, 2}

OutDirOf(r) == <<IF r = 1 THEN "out_a" ELSE "out_b">>

\* out_dir / "analysis_<timestamp>"
JobDirOf(l) == Append(l.out_dir, "analysis_ts")

\* Tables of two rows with the text columns color and shape; shape may
\* hold a missing value.
ConcurrentTables ==
    {MakeTable(2, <<Col("color"), Col("shape")>>,
               (Col("color") :> color) @@ (Col("shape") :> shape)) :
        color \in {<<1, 2>>, <<1, 1>>}, shape \in {<<1, 2>>, <<2, NaN>>}}

ConcurrentMethods == {"onehot", "bogus", PyNone}

ConcurrentIncludes == {IncludeParts, {"csv"}}

NewRun(t, method, parts, dir) ==
    [df |-> t, encode |-> method, include |-> parts, out_dir |-> dir,
     pc |-> "start", df_prepared |-> None, corr |-> None,
     corr_clean |-> None, results |-> <<>>, raised |-> None, wrote |-> {}]

InitConcurrent ==
    /\ \E t \in [Runs -> ConcurrentTables],
          method \in [Runs -> ConcurrentMethods],
          parts \in [Runs -> ConcurrentIncludes] :
           runs = [r \in Runs |->
                      NewRun(t[r], method[r], parts[r], OutDirOf(r))]
    /\ pyplot = <<>>
    /\ fs = <<>>
    /\ df = None
    /\ encode = "none"
    /\ include = {}
    /\ pc = "idle"
    /\ df_prepared = None
    /\ corr = None
    /\ corr_clean = None
    /\ results = <<>>
    /\ raised = None
    /\ trace = <<>>
    /\ call = NoCall
    /\ ret = None

\* Invocation r goes on with the locals l; on the way it has made the disk
\* files.
Goes(r, l, files) ==
    /\ runs' = [runs EXCEPT ![r] =
                   [l EXCEPT !.wrote = @ \cup {p \in DOMAIN files :
                                                  \/ p \notin DOMAIN fs
                                                  \/ files[p] # fs[p]}]]
    /\ fs' = files

\* Invocation r has written the file at path: written even when the new
\* content is the old one.
GoesWriting(r, l, files, path) ==
    /\ runs' = [runs EXCEPT ![r] =
                   [l EXCEPT !.wrote = @ \cup {path.path}
                                         \cup (DOMAIN files \ DOMAIN fs)]]
    /\ fs' = files

\* job_dir.mkdir(parents=True, exist_ok=True)
RunMakeJobDir(r) ==
    LET l == runs[r]
    IN /\ l.pc = "start"
       /\ Goes(r, [l EXCEPT !.pc = "prepare"], mkdir(fs, JobDirOf(l)))
       /\ UNCHANGED pyplot
       /\ UNCHANGED single_run_vars

RunPrepare(r) ==
    LET l == runs[r]
        p == prepare_dataframe(l.df, l.encode)
    IN /\ l.pc = "prepare"
       /\ IF p.out.kind = "raise"
          THEN Goes(r, [l EXCEPT !.df = p.df, !.pc = "failed",
                                 !.raised = p.out], fs)
          ELSE Goes(r, [l EXCEPT !.df = p.df, !.pc = "distributions",
                                 !.df_prepared = p.out.value,
                                 !.results =
                                     Put(@, "prepared_shape",
                                         Shape(p.out.value.nrows,
                                               Len(p.out.value.columns)))],
                    fs)
       /\ UNCHANGED pyplot
       /\ UNCHANGED single_run_vars

RunDistributions(r) ==
    LET l == runs[r]
        d == compute_distributions(l.df)
    IN /\ l.pc = "distributions"
       /\ IF d.kind = "raise"
          THEN Goes(r, [l EXCEPT !.pc = "failed", !.raised = d], fs)
          ELSE Goes(r, [l EXCEPT !.pc = "correlation",
                                 !.results = Put(@, "distributions", d.value)],
                    fs)
       /\ UNCHANGED pyplot
       /\ UNCHANGED single_run_vars

RunCorrelation(r) ==
    LET l == runs[r]
        m == compute_correlation_matrix(l.df_prepared)
        path == PathOf(JobDirOf(l), "correlation.csv")
        r1 == Put(Put(l.results, "corr", m), "corr_shape", FrameShape(m))
        next == [l EXCEPT !.pc = "heatmap", !.corr = m,
                          !.corr_clean = corr_clean_of(m)]
    IN /\ l.pc = "correlation"
       /\ IF "csv" \in l.include
          THEN GoesWriting(r, [next EXCEPT !.results = Put(r1, "corr_csv", path)],
                           save_csv(fs, m, path), path)
          ELSE Goes(r, [next EXCEPT !.results = r1], fs)
       /\ UNCHANGED pyplot
       /\ UNCHANGED single_run_vars

\* The tests of the heatmap stage and, in save_heatmap,
\* out_path.parent.mkdir(parents=True, exist_ok=True).
RunHeatmap(r) ==
    LET l == runs[r]
    IN /\ l.pc = "heatmap"
       /\ IF "images" \notin l.include
          THEN Goes(r, [l EXCEPT !.pc = "mutual_info"], fs)
          ELSE IF IsEmptyFrame(l.corr_clean)
          THEN Goes(r, [l EXCEPT !.pc = "mutual_info",
                                 !.results = Put(@, "heatmap", None)], fs)
          ELSE Goes(r, [l EXCEPT !.pc = "plt.figure"], mkdir(fs, JobDirOf(l)))
       /\ UNCHANGED pyplot
       /\ UNCHANGED single_run_vars

\* plt.figure(figsize=figsize): a new, blank figure becomes the current one.
RunFigure(r) ==
    LET l == runs[r]
    IN /\ l.pc = "plt.figure"
       /\ pyplot' = Append(pyplot, <<>>)
       /\ Goes(r, [l EXCEPT !.pc = "sns.heatmap"], fs)
       /\ UNCHANGED single_run_vars

\* pyplot.gcf(): the current figure, made when there is none.
gcf(figures) == IF figures = <<>> THEN <<<<>>>> ELSE figures

\* What a heatmap of the matrix m with its title looks like.
Heatmap(m) == [kind |-> "heatmap", of |-> m]

\* sns.heatmap(corr, ...), plt.title(...), plt.tight_layout(): drawn on the
\* current figure.
RunDraw(r) ==
    LET l == runs[r]
        figures == gcf(pyplot)
    IN /\ l.pc = "sns.heatmap"
       /\ pyplot' = [figures EXCEPT ![Len(figures)] =
                                       Append(@, Heatmap(l.corr_clean))]
       /\ Goes(r, [l EXCEPT !.pc = "plt.savefig"], fs)
       /\ UNCHANGED single_run_vars

\* The image of a figure: of one heatmap, that heatmap; otherwise whatever
\* has been drawn on it, one thing over the other.
Image(figure) ==
    IF Len(figure) = 1 THEN figure[1]
    ELSE [kind |-> "overlay", of |-> figure]

\* plt.savefig(out_path, dpi=150): the image of the current figure.
RunSavefig(r) ==
    LET l == runs[r]
        figures == gcf(pyplot)
        path == PathOf(JobDirOf(l), "heatmap.png")
    IN /\ l.pc = "plt.savefig"
       /\ pyplot' = figures
       /\ GoesWriting(r, [l EXCEPT !.pc = "plt.close"],
                      WriteFile(fs, path.path, Image(figures[Len(figures)])),
                      path)
       /\ UNCHANGED single_run_vars

\* plt.close() closes the current figure; save_heatmap returns out_path.
RunClose(r) ==
    LET l == runs[r]
    IN /\ l.pc = "plt.close"
       /\ pyplot' = SubSeq(pyplot, 1, Len(pyplot) - 1)
       /\ Goes(r, [l EXCEPT !.pc = "mutual_info",
                            !.results = Put(@, "heatmap",
                                            PathOf(JobDirOf(l), "heatmap.png"))],
               fs)
       /\ UNCHANGED single_run_vars

RunMutualInfo(r) ==
    LET l == runs[r]
        cat_cols == select_dtypes(l.df, ObjectKinds)
        m == compute_mutual_info(l.df, cat_cols)
        path == PathOf(JobDirOf(l), "mutual_info.csv")
    IN /\ l.pc = "mutual_info"
       /\ IF cat_cols = <<>>
          THEN Goes(r, [l EXCEPT !.pc = "report"], fs)
          ELSE IF m.kind = "raise"
          THEN Goes(r, [l EXCEPT !.pc = "failed", !.raised = m], fs)
          ELSE IF "csv" \in l.include
          THEN GoesWriting(r, [l EXCEPT !.pc = "report",
                                        !.results = Put(Put(@, "mi", m.value),
                                                        "mi_csv", path)],
                           save_csv(fs, m.value, path), path)
          ELSE Goes(r, [l EXCEPT !.pc = "report",
                                 !.results = Put(@, "mi", m.value)], fs)
       /\ UNCHANGED pyplot
       /\ UNCHANGED single_run_vars

RunReport(r) ==
    LET l == runs[r]
        report_path == PathOf(JobDirOf(l), "report.md")
        include_images == "images" \in l.include
    IN /\ l.pc = "report"
       /\ GoesWriting(r, [l EXCEPT !.pc = "done",
                                   !.results = Put(@, "report", report_path)],
                      WriteFile(fs, report_path.path,
                                build_markdown_report(l.results, include_images)),
                      report_path)
       /\ UNCHANGED pyplot
       /\ UNCHANGED single_run_vars

NextConcurrent ==
    \E r \in Runs :
        \/ RunMakeJobDir(r)
        \/ RunPrepare(r)
        \/ RunDistributions(r)
        \/ RunCorrelation(r)
        \/ RunHeatmap(r)
        \/ RunFigure(r)
        \/ RunDraw(r)
        \/ RunSavefig(r)
        \/ RunClose(r)
        \/ RunMutualInfo(r)
        \/ RunReport(r)

SpecConcurrent == InitConcurrent /\ [][NextConcurrent]_vars

(***************************************************************************)
(* Properties of the encoders, checked under SpecCore.                     *)
(***************************************************************************)
IsCall(fn) == call.fn = fn

\* The distinct non-missing values of a column.
Distinct(s) == Range(s) \ {NaN}

HasMissing(s) == NaN \in Range(s)

\* The indicator columns that a table holds for a source column.
Indicators(t, c) == {x \in Columns(t) : x[1] = c[1] /\ x[2] # 0}

\* How many indicator columns of source column c are set in row i.
RowSum(t, c, i) == Cardinality({x \in Indicators(t, c) : t.data[x][i] = 1})

\* The columns a call encodes: the named one, or every text column.
EncodedColumns ==
    IF IsCall("encode_categorical")
    THEN {call.column} \cap Columns(call.df)
    ELSE IF IsCall("_encode_all_columns") \/ IsCall("prepare_dataframe")
    THEN Range(select_dtypes(call.df, ObjectKinds))
    ELSE {}

Returned == ret.kind = "return"

\* C4: for a column absent from the table, encode_categorical raises
\* KeyError whatever the method, validate_category_column raises ValueError,
\* the exception tells the two calls apart, and the table is left as it was.
C4_AbsentColumnErrors ==
    /\ (IsCall("encode_categorical") /\ call.column \notin Columns(call.df))
           => (ret = Raise("KeyError") /\ df = call.df)
    /\ (IsCall("validate_category_column") /\ call.column \notin Columns(call.df))
           => (ret = Raise("ValueError") /\ df = call.df)
    /\ ((IsCall("encode_categorical") \/ IsCall("validate_category_column"))
            /\ call.column \notin Columns(call.df))
           => (ret.kind = "raise"
               /\ (ret.exc = "KeyError" <=> IsCall("encode_categorical")))

C4_Witness ==
    /\ IsCall("encode_categorical")
    /\ call.column \notin Columns(call.df)
    /\ call.method = "bogus"
    /\ call.df.nrows > 0
    /\ ret = Raise("KeyError")

\* C6 as stated: method none is a no-op in encode_categorical on an existing
\* column and in prepare_dataframe: no error, and the returned table equals
\* the input.
C6_NoneIsNoOpEverywhere ==
    (/\ call.fn \in {"encode_categorical", "prepare_dataframe"}
     /\ call.method = "none"
     /\ IsCall("encode_categorical") => call.column \in Columns(call.df))
        => (ret = Return(call.df) /\ df = call.df)

\* C6 amended: prepare_dataframe with method none returns a table equal to
\* the input and raises nothing; encode_categorical on an existing column
\* rejects method none with ValueError; both leave the input as it was.
C6_NoneIsNoOpInBulk ==
    /\ (IsCall("prepare_dataframe") /\ call.method = "none")
           => (ret = Return(call.df) /\ df = call.df)
    /\ (/\ IsCall("encode_categorical")
        /\ call.method = "none"
        /\ call.column \in Columns(call.df))
           => (ret = Raise("ValueError") /\ df = call.df)

C6_Witness ==
    /\ IsCall("prepare_dataframe")
    /\ call.method = "none"
    /\ select_dtypes(call.df, ObjectKinds) # <<>>
    /\ call.df.nrows > 0
    /\ Returned

\* One-hot encoding of column c of table src into table out, with the
\* number of set indicators that each row must have.
OneHotShape(src, out, c) ==
    /\ c \notin Columns(out)
    /\ Cardinality(Indicators(out, c)) = Cardinality(Distinct(src.data[c]))
    /\ \A x \in Indicators(out, c) :
           \A i \in 1..src.nrows : out.data[x][i] \in {0, 1}

IsOneHotCall ==
    /\ call.fn \in {"encode_categorical", "_encode_all_columns",
                    "prepare_dataframe"}
    /\ call.method = "onehot"
    /\ Returned

\* C7 as stated: one-hot encoding removes the column, adds one indicator
\* column per distinct value, all values 0 or 1, and the indicators of every
\* row, also of a row whose source value is missing, sum to 1.
C7_OneHotEveryRowSumsToOne ==
    IsOneHotCall =>
        \A c \in EncodedColumns :
            /\ OneHotShape(call.df, ret.value, c)
            /\ \A i \in 1..call.df.nrows : RowSum(ret.value, c, i) = 1

\* C7 amended: as stated, except that k counts the distinct non-missing
\* values and that the indicators of a row sum to 1 when the source value
\* is present and to 0 when it is missing.
C7_OneHotPresentRowsSumToOne ==
    IsOneHotCall =>
        \A c \in EncodedColumns :
            /\ OneHotShape(call.df, ret.value, c)
            /\ \A i \in 1..call.df.nrows :
                   RowSum(ret.value, c, i) =
                       IF call.df.data[c][i] = NaN THEN 0 ELSE 1

C7_Witness ==
    /\ IsOneHotCall
    /\ \E c \in EncodedColumns :
           /\ HasMissing(call.df.data[c])
           /\ Cardinality(Distinct(call.df.data[c])) = 1
           /\ Cardinality(Indicators(ret.value, c)) = 1

IsCodeCall ==
    /\ call.fn \in {"encode_categorical", "_encode_all_columns",
                    "prepare_dataframe"}
    /\ call.method \in {"ordinal", "label"}
    /\ Returned

\* The codes of column c form 0..k-1 for its k distinct values, equal
\* values get equal codes and different values different codes.
ContiguousCodes(src, out, c) ==
    /\ Range(out.data[c]) = 0..(Cardinality(Distinct(src.data[c])) - 1)
    /\ \A i, j \in 1..src.nrows :
           (src.data[c][i] = src.data[c][j]) <=> (out.data[c][i] = out.data[c][j])

\* C8 as stated: ordinal and label encoding, single-column and bulk, turn
\* every column with k distinct values into codes that are exactly 0..k-1.
C8_CodesContiguousAlways ==
    IsCodeCall =>
        \A c \in EncodedColumns : ContiguousCodes(call.df, ret.value, c)

\* C8 amended: the same for every column that has no missing value.
C8_CodesContiguousWithoutMissing ==
    IsCodeCall =>
        \A c \in EncodedColumns :
            ~HasMissing(call.df.data[c]) =>
                ContiguousCodes(call.df, ret.value, c)

C8_Witness ==
    /\ IsCodeCall
    /\ IsCall("_encode_all_columns")
    /\ \E c \in EncodedColumns :
           /\ ~HasMissing(call.df.data[c])
           /\ Range(ret.value.data[c]) = {0, 1}

\* The row at which value v first appears in column s.
FirstRow(s, v) == CHOOSE i \in DOMAIN s : s[i] = v /\ \A j \in 1..(i - 1) : s[j] # v

\* C9: ordinal encoding, single-column and bulk alike, gives the i-th
\* distinct category met from the first row on (i from 0) the code i.
C9_OrdinalFirstSeen ==
    (IsCodeCall /\ call.method = "ordinal") =>
        \A c \in EncodedColumns :
            \A i \in 1..call.df.nrows :
                call.df.data[c][i] # NaN =>
                    ret.value.data[c][i] =
                        Cardinality({w \in Distinct(call.df.data[c]) :
                            FirstRow(call.df.data[c], w)
                                < FirstRow(call.df.data[c], call.df.data[c][i])})

(***************************************************************************)
(* Properties of analyze_dataset, checked under Spec.                      *)
(***************************************************************************)
ReportPath == Append(JobDir, "report.md")

CorrCsvPath == Append(JobDir, "correlation.csv")

MiCsvPath == Append(JobDir, "mutual_info.csv")

HeatmapPath == Append(JobDir, "heatmap.png")

\* The files (not the directories) on disk.
Artifacts == {p \in DOMAIN fs : fs[p].kind = "file"}

TextColumns == select_dtypes(df, ObjectKinds)

ReportLines == fs[ReportPath].content

HasLine(text) == \E k \in DOMAIN ReportLines : ReportLines[k].text = text

\* Some numeric column of the encoded table takes two different values, so
\* that its row of the correlation matrix is not all NaN.
SomeColumnVaries ==
    \E c \in Range(select_dtypes(df_prepared, NumberKinds)) :
        Cardinality(Range(df_prepared.data[c])) >= 2

\* C1: a run with an empty include set that finishes leaves no artifact
\* file in the run directory, only the directory itself.
C1_EmptyIncludeLeavesNoArtifact ==
    (pc = "done" /\ include = {}) => Artifacts = {}

StageOrder ==
    <<"prepare", "distributions", "correlation", "mutual_info", "report">>

Ran(stage) == stage \in Range(trace)

\* C3: the stages run in the order bulk encoding, distribution summary,
\* correlation, mutual information, report; encoding is skipped for method
\* none; the summary and the mutual information are over the text columns
\* of the original table, the correlation over the numeric columns of the
\* encoded table; the report is written only after all of them.
C3_StageOrder ==
    /\ \A i, j \in DOMAIN trace :
           i < j => IndexOf(StageOrder, trace[i]) < IndexOf(StageOrder, trace[j])
    /\ \A k \in 2..Len(StageOrder) :
           (Ran(StageOrder[k]) /\ StageOrder[k] # "report") => Ran(StageOrder[k - 1])
    /\ Ran("report") =>
           /\ Ran("prepare") /\ Ran("distributions") /\ Ran("correlation")
           /\ TextColumns # <<>> => Ran("mutual_info")
    /\ df_prepared # None =>
           /\ Ran("prepare")
           /\ IF encode \in {"none", PyNone}
              THEN df_prepared = df
              ELSE select_dtypes(df_prepared, ObjectKinds) = <<>>
    /\ "distributions" \in DOMAIN results =>
           /\ df_prepared # None
           /\ results["distributions"].order = TextColumns
           /\ \A c \in Range(TextColumns) :
                  results["distributions"].info[c].n_unique
                      = Cardinality(Range(df.data[c]))
    /\ "corr" \in DOMAIN results =>
           /\ "distributions" \in DOMAIN results
           /\ results["corr"].index = select_dtypes(df_prepared, NumberKinds)
    /\ "mi" \in DOMAIN results =>
           /\ "corr" \in DOMAIN results
           /\ results["mi"].index = TextColumns
    /\ "report" \in DOMAIN results =>
           /\ "corr" \in DOMAIN results
           /\ TextColumns # <<>> => "mi" \in DOMAIN results

C3_Witness ==
    /\ pc = "done"
    /\ encode = "onehot"
    /\ Len(TextColumns) = 2
    /\ trace = StageOrder
    /\ results["distributions"].order # <<>>
    /\ Len(results["corr"].index) > Len(df.columns)

\* C5: the step in which a stage fails records the exception, writes no
\* report and leaves every file and directory on disk as it was; after the
\* failure nothing runs and nothing changes.
C5_FailureAbortsAndKeepsFiles ==
    [][/\ pc' = "failed" =>
              /\ raised'.kind = "raise"
              /\ fs' = fs
              /\ JobDir \in DOMAIN fs'
              /\ ReportPath \notin DOMAIN fs'
              /\ "report" \notin DOMAIN results'
              /\ ~("report" \in Range(trace'))
       /\ pc = "failed" => UNCHANGED vars
       /\ pc' # "failed" => raised' = None]_vars

C5_Witness ==
    /\ pc = "failed"
    /\ raised = Raise("ValueError")
    /\ Artifacts = {CorrCsvPath, HeatmapPath}

SectionHeadings ==
    <<"## 1. Distributions summary",
      "## 2. Correlation matrix",
      "## 3. Mutual information (categorical pairs)",
      "## 4. Conclusions">>

\* The texts of the report's lines that start a section, in order.
HeadingsOf(lines) ==
    LET heads == SelectSeq(lines, LAMBDA l : \E k \in 1..4 : l.text = SectionHeadings[k])
    IN [k \in 1..Len(heads) |-> heads[k].text]

\* C10: every report has the title and the timestamp, then the four
\* sections once each and in order, and the image reference exactly when
\* images are included and the clean correlation matrix is not empty.
C10_ReportHasFourSections ==
    ReportPath \in DOMAIN fs =>
        /\ ReportLines[1].text = "# Categorical analysis report"
        /\ ReportLines[2].text = "Generated: UTC"
        /\ HeadingsOf(ReportLines) = SectionHeadings
        /\ HasLine("![heatmap]") <=> ("images" \in include /\ SomeColumnVaries)

(***************************************************************************)
(* Properties of the compute blocks, checked under SpecCore.               *)
(***************************************************************************)
RECURSIVE SumOf(_)
SumOf(f) ==
    IF DOMAIN f = {} THEN 0
    ELSE LET v == CHOOSE v \in DOMAIN f : TRUE
         IN f[v] + SumOf([w \in DOMAIN f \ {v} |-> f[w]])

\* What a summary of column c of table t has to satisfy.
GoodSummary(t, s) ==
    /\ SumOf(s.counts) = t.nrows
    /\ s.n_unique = Cardinality(DOMAIN s.counts)
    /\ s.most_freq \in DOMAIN s.counts
    /\ \A v \in DOMAIN s.counts : s.counts[v] <= s.counts[s.most_freq]
    /\ s.most_freq_share.num = s.counts[s.most_freq]
    /\ s.most_freq_share.den = t.nrows
    /\ 0 <= s.most_freq_share.num
    /\ s.most_freq_share.num <= s.most_freq_share.den

GoodSummaries(t, d) ==
    /\ d.order = select_dtypes(t, ObjectKinds)
    /\ DOMAIN d.info = Range(d.order)
    /\ \A c \in Range(d.order) :
           /\ GoodSummary(t, d.info[c])
           /\ DOMAIN d.info[c].counts = Range(t.data[c])

\* C13: for every table, compute_distributions returns, without error, one
\* summary per text column; in each summary the counts (missing values in a
\* bucket of their own) sum to the row count, n_unique is the number of
\* buckets, most_freq is a value with the largest count, and most_freq_share
\* is that count divided by the row count and lies in [0,1].
C13_DistributionsOfEveryTable ==
    IsCall("compute_distributions") =>
        /\ Returned
        /\ GoodSummaries(call.df, ret.value)

\* The same for the tables that have a row or have no text column, which
\* are the tables compute_distributions returns for.
DistributionsOfTablesWithRows ==
    /\ IsCall("compute_distributions")
    /\ call.df.nrows > 0 \/ select_dtypes(call.df, ObjectKinds) = <<>>
    => /\ Returned
       /\ GoodSummaries(call.df, ret.value)

\* The columns a compute_mutual_info call scores.
ScoredColumns ==
    IF call.given THEN call.columns ELSE select_dtypes(call.df, ObjectKinds)

\* What the matrix m of the columns cols of table t has to satisfy.
GoodMutualInfo(t, cols, m) ==
    /\ m.index = cols
    /\ m.columns = cols
    /\ DOMAIN m.cell = Range(cols) \X Range(cols)
    /\ \A a, b \in Range(cols) : m.cell[<<a, b>>] = m.cell[<<b, a>>]
    /\ \A a \in Range(cols) : m.cell[<<a, a>>] = ZeroScore
    /\ \A i, j \in 1..Len(cols) :
           i < j => m.cell[<<cols[i], cols[j]>>]
                       = mutual_info_score(t.data[cols[i]], t.data[cols[j]])

\* C14: for every table and every column list, compute_mutual_info returns
\* a square matrix indexed on both axes by the given columns (the text
\* columns of the table when no list is given, an empty matrix for an empty
\* list); it is symmetric, its diagonal is 0, and the entry of two
\* different columns is the score of their raw labels.
C14_MutualInfoOfEveryTable ==
    IsCall("compute_mutual_info") =>
        /\ Returned
        /\ GoodMutualInfo(call.df, ScoredColumns, ret.value)

\* The same for the calls on a table with rows in which no scored column
\* has a missing value when two or more columns are scored.
MutualInfoWithoutMissing ==
    /\ IsCall("compute_mutual_info")
    /\ call.df.nrows > 0
    /\ Len(ScoredColumns) < 2
           \/ \A c \in Range(ScoredColumns) : ~HasMissing(call.df.data[c])
    => /\ Returned
       /\ GoodMutualInfo(call.df, ScoredColumns, ret.value)

(***************************************************************************)
(* Properties of the conclusions, checked under SpecConclusions.           *)
(***************************************************************************)
RuleOrder ==
    <<"Max positive correlation",
      "Max negative correlation",
      "Average absolute pairwise correlation",
      "Most skewed category",
      "High-cardinality features",
      "Top mutual information",
      "Consider dimensionality reduction">>

TextsOf(lines) == [k \in 1..Len(lines) |-> lines[k].text]

\* Every text is one of the rules' and the texts follow the rules' order.
InRuleOrder(texts) ==
    /\ \A k \in 1..Len(texts) : texts[k] \in Range(RuleOrder)
    /\ \A i, j \in 1..Len(texts) :
           i < j => IndexOf(RuleOrder, texts[i]) < IndexOf(RuleOrder, texts[j])

\* Rule 2 has a correlation matrix to average: the bundle holds one with
\* more than one row that is not entirely NaN.
Rule2Applies(r) ==
    /\ "corr" \in DOMAIN r
    /\ Cardinality({a \in Range(r["corr"].index) :
                       \E b \in Range(r["corr"].columns) :
                           ~IsNaNCell(r["corr"].cell[<<a, b>>])}) > 1

\* The columns of the bundle with more than 10 distinct values.
HighCardinalityColumns(r) ==
    IF "distributions" \in DOMAIN r
    THEN {c \in Range(r["distributions"].order) :
             r["distributions"].info[c].n_unique > 10}
    ELSE {}

\* C12: _generate_conclusions returns a non-empty list that ends with the
\* recommendation; its entries follow the rule order (max positive, max
\* negative, average, most skewed, high cardinality, top mutual
\* information); the high-cardinality entry lists only columns with more
\* than 10 distinct values; and the average statement is there exactly when
\* rule 2 applies, whether or not the extremes are reported.
C12_ConclusionsInRuleOrder ==
    IsCall("_generate_conclusions") =>
        LET out == ret.value
            texts == TextsOf(out)
        IN /\ Returned
           /\ out # <<>>
           /\ texts[Len(texts)] = "Consider dimensionality reduction"
           /\ InRuleOrder(texts)
           /\ "Max positive correlation" \in Range(texts)
                  <=> "Max negative correlation" \in Range(texts)
           /\ \A k \in 1..Len(out) :
                  texts[k] = "High-cardinality features" =>
                      /\ out[k].arg # <<>>
                      /\ Range(out[k].arg) = HighCardinalityColumns(call.results)
           /\ "Average absolute pairwise correlation" \in Range(texts)
                  <=> Rule2Applies(call.results)

\* A call that reports the average without the extremes, and lists one of
\* two columns as of high cardinality, with every other rule reporting.
C12_Witness ==
    /\ IsCall("_generate_conclusions")
    /\ TextsOf(ret.value) =
           <<"Average absolute pairwise correlation",
             "Most skewed category",
             "High-cardinality features",
             "Top mutual information",
             "Consider dimensionality reduction">>
    /\ Cardinality(HighCardinalityColumns(call.results)) = 1
    /\ Len(call.results["distributions"].order) = 2

(***************************************************************************)
(* Properties of two concurrent invocations, checked under SpecConcurrent. *)
(***************************************************************************)
IsUnder(path, dir) ==
    /\ Len(path) >= Len(dir)
    /\ SubSeq(path, 1, Len(dir)) = dir

\* The file that the bundle r names under key, if it names one.
Names(r, key) == key \in DOMAIN r /\ r[key] # None

\* What the files of invocation l hold when it runs alone: the matrices it
\* has computed, the heatmap of its clean correlation matrix and the report
\* of its bundle.
ArtifactsAsAlone(l) ==
    /\ \A key \in {"corr_csv", "heatmap", "mi_csv", "report"} :
           Names(l.results, key) =>
               /\ IsUnder(l.results[key].path, JobDirOf(l))
               /\ l.results[key].path \in DOMAIN fs
    /\ Names(l.results, "corr_csv") =>
           fs[l.results["corr_csv"].path] = File(l.results["corr"])
    /\ Names(l.results, "mi_csv") =>
           fs[l.results["mi_csv"].path] = File(l.results["mi"])
    /\ Names(l.results, "heatmap") =>
           fs[l.results["heatmap"].path] =
               save_heatmap(<<>>, l.corr_clean,
                            l.results["heatmap"])[l.results["heatmap"].path]
    /\ Names(l.results, "report") =>
           fs[l.results["report"].path] =
               File(build_markdown_report(l.results, "images" \in l.include))

\* C11: two invocations with different output directories, interleaved in
\* any way, never write a file of each other: whatever an invocation
\* creates or writes lies under its own output directory and is written by
\* it alone, and its bundle and artifacts are those of a run on its own.
C11_ConcurrentRunsAreIsolated ==
    \A r \in Runs :
        LET l == runs[r]
            other == runs[3 - r]
        IN /\ \A p \in l.wrote :
                  /\ IsUnder(p, l.out_dir)
                  /\ ~IsUnder(p, other.out_dir)
                  /\ p \notin other.wrote
           /\ ArtifactsAsAlone(l)

\* The part of C11 about the disk alone: where the invocations write.
ConcurrentRunsWriteApart ==
    \A r \in Runs :
        \A p \in runs[r].wrote :
            /\ IsUnder(p, runs[r].out_dir)
            /\ ~IsUnder(p, runs[3 - r].out_dir)
            /\ p \notin runs[3 - r].wrote

====
